---------------------------- MODULE Spec2Model ----------------------------
(***************************************************************************)
(* Model of rscrim/data-redact (main.go): the PII/SPII detector, the three *)
(* transformations (tokenize, detokenize, redact) and the file-processing  *)
(* driver (main, approveFile, processFile).                                *)
(*                                                                         *)
(* A document is a sequence of characters, each character a one-character  *)
(* string.  Positions are 1-based; a match is a pair <<p, e>> covering the *)
(* characters p .. e-1 (e = p for an empty match), and <<0, 0>> means that *)
(* there is no match.                                                      *)
(***************************************************************************)
EXTENDS Integers, Sequences, FiniteSets, TLC

(***************************************************************************)
(* Character classes of Go's regexp (RE2 syntax), on ASCII.                *)
(***************************************************************************)
LowerLetters ==
  {"a","b","c","d","e","f","g","h","i","j","k","l","m",
   "n","o","p","q","r","s","t","u","v","w","x","y","z"}

UpperLetters ==
  {"A","B","C","D","E","F","G","H","I","J","K","L","M",
   "N","O","P","Q","R","S","T","U","V","W","X","Y","Z"}

DigitChars == {"0","1","2","3","4","5","6","7","8","9"}

ToLower ==
  ("A" :> "a") @@ ("B" :> "b") @@ ("C" :> "c") @@ ("D" :> "d") @@
  ("E" :> "e") @@ ("F" :> "f") @@ ("G" :> "g") @@ ("H" :> "h") @@
  ("I" :> "i") @@ ("J" :> "j") @@ ("K" :> "k") @@ ("L" :> "l") @@
  ("M" :> "m") @@ ("N" :> "n") @@ ("O" :> "o") @@ ("P" :> "p") @@
  ("Q" :> "q") @@ ("R" :> "r") @@ ("S" :> "s") @@ ("T" :> "t") @@
  ("U" :> "u") @@ ("V" :> "v") @@ ("W" :> "w") @@ ("X" :> "x") @@
  ("Y" :> "y") @@ ("Z" :> "z")

\* (?i): a character and a pattern character match when they fold alike.
Fold(c) == IF c \in UpperLetters THEN ToLower[c] ELSE c

\* [a-z] under (?i)
IsLetter(c) == c \in LowerLetters \cup UpperLetters

\* IsWordChar as it would be were the underscore left out of \w
IsWordCharWithoutUnderscore(c) ==
  c \in LowerLetters \cup UpperLetters \cup DigitChars

\* \w
IsWordChar(c) == c \in LowerLetters \cup UpperLetters \cup DigitChars \cup {"_"}

\* \s, which is also the white space strings.TrimSpace removes (ASCII)
IsSpace(c) == c \in {" ", "\t", "\n", "\f", "\r"}

\* \b at position p of s: between s[p-1] and s[p], p in 1 .. Len(s)+1
WordBoundaryAt(s, p) ==
  LET before == p > 1 /\ IsWordChar(s[p-1])
      after  == p <= Len(s) /\ IsWordChar(s[p])
  IN  before # after

(***************************************************************************)
(* The vocabularies of the patterns, in the order the patterns list them.  *)
(***************************************************************************)
PiiPhrases ==
  << <<"S","S","N">>,
     <<"s","o","c","i","a","l"," ","s","e","c","u","r","i","t","y"," ","n","u","m","b","e","r">>,
     <<"d","r","i","v","e","r","'","s"," ","l","i","c","e","n","s","e">>,
     <<"p","a","s","s","p","o","r","t">>,
     <<"c","r","e","d","i","t"," ","c","a","r","d">>,
     <<"d","e","b","i","t"," ","c","a","r","d">>,
     <<"b","a","n","k"," ","a","c","c","o","u","n","t">> >>

NameQualifiers ==
  << <<"f","i","r","s","t">>,
     <<"l","a","s","t">>,
     <<"m","i","d","d","l","e">>,
     <<"m","a","i","d","e","n">>,
     <<"p","r","e","v","i","o","u","s">>,
     <<"c","u","r","r","e","n","t">> >>

NameFields ==
  << <<"n","a","m","e">>,
     <<"i","n","i","t","i","a","l","s">> >>

ContactQualifiers ==
  << <<"p","h","o","n","e">>,
     <<"f","a","x">>,
     <<"e","m","a","i","l">>,
     <<"a","d","d","r","e","s","s">>,
     <<"c","i","t","y">>,
     <<"s","t","a","t","e">>,
     <<"z","i","p">>,
     <<"p","o","s","t","a","l">> >>

ContactFields ==
  << <<"n","u","m","b","e","r">>,
     <<"c","o","d","e">> >>

SpiiQualifiers ==
  << <<"m","e","d","i","c","a","l">>,
     <<"h","e","a","l","t","h">>,
     <<"i","n","s","u","r","a","n","c","e">>,
     <<"b","e","n","e","f","i","t","s">>,
     <<"p","r","e","s","c","r","i","p","t","i","o","n">>,
     <<"t","r","e","a","t","m","e","n","t">> >>

SpiiFields ==
  << <<"i","n","f","o","r","m","a","t","i","o","n">>,
     <<"r","e","c","o","r","d">> >>

IdentityQualifiers ==
  << <<"e","t","h","n","i","c","i","t","y">>,
     <<"r","a","c","e">>,
     <<"s","e","x","u","a","l">>,
     <<"g","e","n","d","e","r">>,
     <<"r","e","l","i","g","i","o","n">> >>

IdentityFields ==
  << <<"i","d","e","n","t","i","t","y">>,
     <<"o","r","i","e","n","t","a","t","i","o","n">> >>

\* Redacted as it would be were the replacement to name what it replaces
RedactedNamingPhrase == <<"[","S","S","N","]">>

\* the replacement redact writes
Redacted == <<"[","r","e","d","a","c","t","e","d","]">>

\* the default of the -token flag
DefaultToken == <<"[","T","O","K","E","N","]">>

(***************************************************************************)
(* Matching one pattern at one position.  Go's regexp is leftmost-first:   *)
(* among the matches that start at a position it takes the one a           *)
(* backtracking matcher finds first, so the alternatives are tried in the  *)
(* order written, an optional group is tried present before absent, and a  *)
(* repetition long before short.  Each operator returns the end e of the   *)
(* match it prefers (the position after its last character), or 0.         *)
(***************************************************************************)

\* the literal lit at position p, case folded when fold
LitEnd(s, p, lit, fold) ==
  IF /\ p + Len(lit) - 1 <= Len(s)
     /\ \A i \in 1..Len(lit) :
          IF fold THEN Fold(s[p+i-1]) = Fold(lit[i]) ELSE s[p+i-1] = lit[i]
  THEN p + Len(lit)
  ELSE 0

\* the first element of a sequence of ends that is a match
RECURSIVE FirstMatch(_)
FirstMatch(ends) ==
  IF ends = << >> THEN 0
  ELSE IF Head(ends) # 0 THEN Head(ends)
  ELSE FirstMatch(Tail(ends))

\* the preferred end if it is a match, else the other one
OrElse(preferred, other) == IF preferred # 0 THEN preferred ELSE other

\* a trailing \b: the end e stands only at a word boundary
Bounded(s, e) == IF e # 0 /\ WordBoundaryAt(s, e) THEN e ELSE 0

\* (?:w1|w2|...)\b at position p
WordsEnd(s, p, words) ==
  FirstMatch([k \in 1..Len(words) |-> Bounded(s, LitEnd(s, p, words[k], TRUE))])

\* \s?(?:f1|f2|...)\b after a qualifier that ended at q: \s present before absent
FieldsAfter(s, q, fields) ==
  IF q = 0 THEN 0
  ELSE OrElse(IF q <= Len(s) /\ IsSpace(s[q])
              THEN WordsEnd(s, q + 1, fields) ELSE 0,
              WordsEnd(s, q, fields))

\* (?:q1|q2|...)\s?(?:f1|f2|...)\b at position p
PairEnd(s, p, quals, fields) ==
  FirstMatch([k \in 1..Len(quals) |->
               FieldsAfter(s, LitEnd(s, p, quals[k], TRUE), fields)])

\* the number of letters from position p on
RECURSIVE LetterRun(_, _)
LetterRun(s, p) ==
  IF p <= Len(s) /\ IsLetter(s[p]) THEN 1 + LetterRun(s, p + 1) ELSE 0

\* \s after the k letters from position p on
SpaceAfter(s, p, k) ==
  IF k >= 1 /\ p + k <= Len(s) /\ IsSpace(s[p + k]) THEN p + k + 1 ELSE 0

\* (?:[a-z]+\s) at position p: [a-z]+ is greedy, and since \s is no letter
\* only the whole run of letters can be followed by it
QualifierEnd(s, p) == SpaceAfter(s, p, LetterRun(s, p))

\* The bodies that follow \b(?:[a-z]+\s)? in the patterns.
BodyEnd(body, s, p) ==
  CASE body = "pii"      -> WordsEnd(s, p, PiiPhrases)
    [] body = "name"     -> PairEnd(s, p, NameQualifiers, NameFields)
    [] body = "contact"  -> PairEnd(s, p, ContactQualifiers, ContactFields)
    [] body = "spii"     -> PairEnd(s, p, SpiiQualifiers, SpiiFields)
    [] body = "identity" -> PairEnd(s, p, IdentityQualifiers, IdentityFields)

\* the body after a qualifier that ended at q
Qualified(body, s, q) == IF q # 0 THEN BodyEnd(body, s, q) ELSE 0

\* PhraseEnd as it would be were the pattern without (?:[a-z]+\s)?
PhraseEndWithoutQualifier(body, s, p) ==
  IF ~WordBoundaryAt(s, p) THEN 0 ELSE BodyEnd(body, s, p)

\* \b(?:[a-z]+\s)?<body>\b at position p: the qualifier present before absent
PhraseEnd(body, s, p) ==
  IF ~WordBoundaryAt(s, p) THEN 0
  ELSE OrElse(Qualified(body, s, QualifierEnd(s, p)), BodyEnd(body, s, p))

\* the number of word characters from position p on
RECURSIVE WordRun(_, _)
WordRun(s, p) ==
  IF p <= Len(s) /\ IsWordChar(s[p]) THEN 1 + WordRun(s, p + 1) ELSE 0

\* \w+\b over at most k characters from position p: long before short
RECURSIVE LongestBounded(_, _, _)
LongestBounded(s, p, k) ==
  IF k < 1 THEN 0
  ELSE IF WordBoundaryAt(s, p + k) THEN p + k
  ELSE LongestBounded(s, p, k - 1)

\* WordEnd as it would be were the pattern \b([a-z]+)\b
WordEndOfLetters(s, p) ==
  IF ~WordBoundaryAt(s, p) THEN 0
  ELSE LongestBounded(s, p, LetterRun(s, p))

\* \b(\w+)\b at position p
WordEnd(s, p) ==
  IF ~WordBoundaryAt(s, p) THEN 0
  ELSE LongestBounded(s, p, WordRun(s, p))

\* \b<QuoteMeta(token)>\b at position p: the token's characters themselves
TokenEnd(token, s, p) ==
  IF ~WordBoundaryAt(s, p) THEN 0
  ELSE Bounded(s, LitEnd(s, p, token, FALSE))

(***************************************************************************)
(* The compiled patterns.  A pattern is a record; MatchEnd is the match of *)
(* a pattern at a position.                                                *)
(***************************************************************************)
\* piiRegex as it would be were the Detector without the phrase vocabulary
piiRegexWithoutPhrases == [kind |-> "phrases", bodies |-> <<"name", "contact">>]

\* package-level piiRegex, the Detector's
piiRegex == [kind |-> "phrases", bodies |-> <<"pii", "name", "contact">>]

\* package-level spiiRegex, the Detector's
spiiRegex == [kind |-> "phrases", bodies |-> <<"spii", "identity">>]

\* redact's local piiRegex
redactPiiRegex == [kind |-> "phrases", bodies |-> <<"pii">>]

\* redact's local spiiRegex
redactSpiiRegex == [kind |-> "phrases", bodies |-> <<"spii">>]

\* tokenize's regex
tokenizeRegex == [kind |-> "word"]

\* detokenize's regex
detokenizeRegex(token) == [kind |-> "token", token |-> token]

MatchEnd(re, s, p) ==
  CASE re.kind = "phrases" ->
         FirstMatch([k \in 1..Len(re.bodies) |-> PhraseEnd(re.bodies[k], s, p)])
    [] re.kind = "word"  -> WordEnd(s, p)
    [] re.kind = "token" -> TokenEnd(re.token, s, p)

\* the match <<pos, e>> if e is one, else the other match
MatchOr(pos, e, other) == IF e # 0 THEN <<pos, e>> ELSE other

\* the leftmost match that starts at position pos or later
RECURSIVE FindFrom(_, _, _)
FindFrom(re, s, pos) ==
  IF pos > Len(s) + 1 THEN <<0, 0>>
  ELSE MatchOr(pos, MatchEnd(re, s, pos), FindFrom(re, s, pos + 1))

\* Regexp.FindAll(s, -1), counted: the successive non-overlapping matches.
\* After an empty match the search moves on by one character, and an empty
\* match right after the previous match is not counted.
RECURSIVE CountFrom(_, _, _, _)
RECURSIVE CountMatch(_, _, _, _, _)
CountMatch(re, s, pos, prevEnd, m) ==
  IF m[1] = 0 THEN 0
  ELSE IF m[2] = pos
       THEN (IF m[1] = prevEnd THEN 0 ELSE 1) + CountFrom(re, s, pos + 1, m[2])
       ELSE 1 + CountFrom(re, s, m[2], m[2])

CountFrom(re, s, pos, prevEnd) ==
  IF pos > Len(s) + 1 THEN 0
  ELSE CountMatch(re, s, pos, prevEnd, FindFrom(re, s, pos))

FindAllCount(re, s) == CountFrom(re, s, 1, 0)

\* strings.TrimSpace
RECURSIVE TrimSpace(_)
TrimSpace(s) ==
  IF s = << >> THEN s
  ELSE IF IsSpace(Head(s)) THEN TrimSpace(Tail(s))
  ELSE IF IsSpace(s[Len(s)]) THEN TrimSpace(SubSeq(s, 1, Len(s) - 1))
  ELSE s

\* Replacement as it would be were detokenize's function to drop the match
ReplacementDroppingMatch(repl, match) ==
  IF repl.kind = "text" THEN repl.text ELSE << >>

\* What a match is replaced with: a fixed text (ReplaceAll, and
\* ReplaceAllFunc with a function that returns the token), or the match
\* itself trimmed (detokenize's function).
Replacement(repl, match) ==
  IF repl.kind = "text" THEN repl.text ELSE TrimSpace(match)

\* Regexp.ReplaceAll / ReplaceAllFunc: copy the text between the matches,
\* replace each match (but not an empty match right after another match),
\* and move on past the match, by at least one character.
RECURSIVE ReplaceFrom(_, _, _, _, _)
RECURSIVE ReplaceMatch(_, _, _, _, _, _)
ReplaceMatch(re, s, repl, searchPos, lastMatchEnd, m) ==
  IF m[1] = 0 THEN SubSeq(s, lastMatchEnd, Len(s))
  ELSE SubSeq(s, lastMatchEnd, m[1] - 1)
       \o (IF m[2] > lastMatchEnd \/ m[1] = 1
           THEN Replacement(repl, SubSeq(s, m[1], m[2] - 1))
           ELSE << >>)
       \o ReplaceFrom(re, s, repl,
                      IF searchPos + 1 > m[2] THEN searchPos + 1 ELSE m[2],
                      m[2])

ReplaceFrom(re, s, repl, searchPos, lastMatchEnd) ==
  ReplaceMatch(re, s, repl, searchPos, lastMatchEnd,
               IF searchPos <= Len(s) + 1 THEN FindFrom(re, s, searchPos)
               ELSE <<0, 0>>)

ReplaceAll(re, s, repl) == ReplaceFrom(re, s, repl, 1, 1)

(***************************************************************************)
(* The three transformations.                                              *)
(***************************************************************************)
tokenize(input, token) ==
  ReplaceAll(tokenizeRegex, input, [kind |-> "text", text |-> token])

detokenize(input, token) ==
  ReplaceAll(detokenizeRegex(token), input, [kind |-> "trim"])

redact(input) ==
  ReplaceAll(redactSpiiRegex,
             ReplaceAll(redactPiiRegex, input, [kind |-> "text", text |-> Redacted]),
             [kind |-> "text", text |-> Redacted])

(***************************************************************************)
(* The inputs: documents, tokens, flags, answers.                           *)
(***************************************************************************)
\* the spec's examples
Example1 ==
  <<"M","y"," ","S","S","N"," ","i","s"," ",
    "1","2","3","-","4","5","-","6","7","8","9">>

Example2 ==
  <<"P","a","t","i","e","n","t"," ","m","e","d","i","c","a","l"," ",
    "r","e","c","o","r","d"," ","a","t","t","a","c","h","e","d">>

HelloWorld == <<"H","e","l","l","o"," ","w","o","r","l","d">>

Stars == <<"*","*","*">>

\* the pieces the documents given to redact are made of
RedactPieces ==
  << <<"S","S","N">>, <<" ">>, <<"m","e","d","i","c","a","l">>,
     <<"r","e","c","o","r","d">>, <<"f","i","r","s","t"," ","n","a","m","e">>,
     <<"M","y">>, <<"-">>, <<"7">> >>

\* the longest document given to redact, in pieces
MaxPieces == 3

RECURSIVE Flatten(_)
Flatten(seqs) ==
  IF seqs = << >> THEN << >> ELSE Head(seqs) \o Flatten(Tail(seqs))

RedactDocs ==
  {Example1, Example2} \cup
  { Flatten([i \in 1..Len(f) |-> RedactPieces[f[i]]]) :
      f \in UNION {[1..k -> 1..Len(RedactPieces)] : k \in 0..MaxPieces} }

\* the characters the documents given to tokenize and detokenize are made of
TokenAlphabet == {"a", "_", "*", " "}

\* the longest such document, in characters
MaxLen == 5

TokenDocs ==
  {HelloWorld, DefaultToken} \cup
  UNION {[1..k -> TokenAlphabet] : k \in 0..MaxLen}

\* the values of the -token flag
Tokens ==
  {DefaultToken, Stars, <<"a">>, <<"a","*">>, <<" ","a">>, <<"a"," ">>, << >>}

\* the modes given to -mode: the three the program knows and one it does not
Modes == {"tokenize", "detokenize", "redact", "shred"}

\* what -file names: nothing, a missing path, a directory isIllegalDirectory
\* rejects, a directory that cannot be listed, a directory, a file
PathKinds == {"none", "missing", "illegal", "unlistable", "directory", "file"}

\* what -output names: nothing, a directory, something that is no directory
OutputKinds == {"none", "directory", "other"}

\* main asks once about a directory of more than this many files
BulkThreshold == 20

\* the most files in a directory
MaxFiles == 21

\* the numbers of files in the directories processed
FileCounts == {0, 2, BulkThreshold, MaxFiles}

\* what the user types at a prompt
Answers == {<<"y">>, <<"Y">>, <<"n">>, << >>}

\* the contents of the files of a directory, in listing order, repeating
FileContents ==
  << <<"M","y"," ","S","S","N">>, <<"H","i"," ","a","l","l">>, DefaultToken >>

FileContent(i) == FileContents[((i - 1) % Len(FileContents)) + 1]

\* strings.ToLower
ToLowerString(s) == [i \in 1..Len(s) |-> Fold(s[i])]

(***************************************************************************)
(* State.  inputFile, output and the match counts are processFile's        *)
(* locals; output is << >> while nothing was produced and <<d>> once       *)
(* document d was.  step, again and recount belong to the specifications   *)
(* of the transformations alone, SpecRedact and SpecToken: there a         *)
(* transformation is applied to a document, then a transformation or the   *)
(* Detector is applied to its result.                                      *)
(***************************************************************************)
VARIABLES
  inputFile,    \* the document read
  token,        \* the -token flag
  matches,      \* <<PII matches, SPII matches>> found in inputFile
  output,       \* the transformed document, if any
  step,         \* how far the applications of the transformations got
  again,        \* the result of transforming output once more, if any
  recount,      \* <<PII matches, SPII matches>> found in output
  mode,         \* the -mode flag
  pathKind,     \* what the -file flag names
  outputKind,   \* what the -output flag names
  nFiles,       \* len(files)
  pc,           \* where main, approveFile or processFile stands
  loop,         \* which of main's loops runs: "all" (line 65) or "approve"
  idx,          \* the index in files of the file at hand, from 1
  bulkInput,    \* the answer to "Do you want to process all of them?"
  input,        \* the answer to the last "Process file ...?"
  printed,      \* the last line the last step printed, if any
  calls,        \* the calls of processFile on the file at hand
  failed,       \* whether processFile gave up on some file with an error
  wrote,        \* whether some output file was written
  outputFile    \* processFile's outputFile: where the output goes

transformVars == <<inputFile, token, matches, output>>

resultVars == <<step, again, recount>>

flagVars == <<mode, pathKind, outputKind, nFiles>>

driverVars == <<pc, loop, idx, bulkInput, input, printed, calls, failed, wrote,
                outputFile>>

vars == <<transformVars, resultVars, flagVars, driverVars>>

\* processFile's "Identify PII and SPII in the input"
Detect(s) == <<FindAllCount(piiRegex, s), FindAllCount(spiiRegex, s)>>

(***************************************************************************)
(* The transformations alone: redact.                                      *)
(***************************************************************************)
\* the driver does not run
DriverIdle ==
  /\ mode = "redact"
  /\ pathKind = "none"
  /\ outputKind = "none"
  /\ nFiles = 0
  /\ pc = "idle"
  /\ loop = "approve"
  /\ idx = 0
  /\ bulkInput = << >>
  /\ input = << >>
  /\ printed = "nothing"
  /\ calls = 0
  /\ failed = FALSE
  /\ wrote = FALSE
  /\ outputFile = "none"

InitRedact ==
  /\ inputFile \in RedactDocs
  /\ token = DefaultToken
  /\ matches = <<0, 0>>
  /\ output = << >>
  /\ step = "start"
  /\ again = << >>
  /\ recount = <<0, 0>>
  /\ DriverIdle

DetectInput ==
  /\ step = "start"
  /\ matches' = Detect(inputFile)
  /\ step' = "detected"
  /\ UNCHANGED <<inputFile, token, output, again, recount, flagVars, driverVars>>

RedactInput ==
  /\ step = "detected"
  /\ output' = <<redact(inputFile)>>
  /\ step' = "redacted"
  /\ UNCHANGED <<inputFile, token, matches, again, recount, flagVars, driverVars>>

RedactOutput ==
  /\ step = "redacted"
  /\ again' = <<redact(output[1])>>
  /\ step' = "redactedTwice"
  /\ UNCHANGED <<inputFile, token, matches, output, recount, flagVars, driverVars>>

DetectOutput ==
  /\ step = "redactedTwice"
  /\ recount' = Detect(output[1])
  /\ step' = "recounted"
  /\ UNCHANGED <<inputFile, token, matches, output, again, flagVars, driverVars>>

NextRedact == DetectInput \/ RedactInput \/ RedactOutput \/ DetectOutput

SpecRedact == InitRedact /\ [][NextRedact]_vars

(***************************************************************************)
(* The transformations alone: tokenize and detokenize.                     *)
(***************************************************************************)
InitToken ==
  /\ inputFile \in TokenDocs
  /\ token \in Tokens
  /\ matches = <<0, 0>>
  /\ output = << >>
  /\ step = "start"
  /\ again = << >>
  /\ recount = <<0, 0>>
  /\ DriverIdle

TokenizeInput ==
  /\ step = "start"
  /\ output' = <<tokenize(inputFile, token)>>
  /\ step' = "tokenized"
  /\ UNCHANGED <<inputFile, token, matches, again, recount, flagVars, driverVars>>

DetokenizeInput ==
  /\ step = "start"
  /\ output' = <<detokenize(inputFile, token)>>
  /\ step' = "detokenized"
  /\ UNCHANGED <<inputFile, token, matches, again, recount, flagVars, driverVars>>

DetokenizeOutput ==
  /\ step = "tokenized"
  /\ again' = <<detokenize(output[1], token)>>
  /\ step' = "roundTrip"
  /\ UNCHANGED <<inputFile, token, matches, output, recount, flagVars, driverVars>>

NextToken == TokenizeInput \/ DetokenizeInput \/ DetokenizeOutput

SpecToken == InitToken /\ [][NextToken]_vars

(***************************************************************************)
(* The driver: main, approveFile and processFile.                          *)
(***************************************************************************)
Init ==
  /\ mode \in Modes
  /\ token = DefaultToken
  /\ pathKind \in PathKinds
  /\ outputKind \in OutputKinds
  /\ nFiles \in (IF pathKind = "directory" THEN FileCounts
                 ELSE IF pathKind = "file" THEN {1} ELSE {0})
  /\ pc = "main"
  /\ loop = "approve"
  /\ idx = 0
  /\ bulkInput = << >>
  /\ input = << >>
  /\ printed = "nothing"
  /\ calls = 0
  /\ failed = FALSE
  /\ wrote = FALSE
  /\ outputFile = "none"
  /\ inputFile = << >>
  /\ matches = <<0, 0>>
  /\ output = << >>
  /\ step = "driver"
  /\ again = << >>
  /\ recount = <<0, 0>>

\* main, lines 34-59: no path, a path os.Stat fails on, an illegal
\* directory, a directory ioutil.ReadDir fails on: os.Exit(1)
ExitOnBadPath ==
  /\ pc = "main"
  /\ pathKind \in {"none", "missing", "illegal", "unlistable"}
  /\ printed' = "Error: path"
  /\ pc' = "exit1"
  /\ UNCHANGED <<transformVars, resultVars, flagVars, loop, idx, bulkInput,
                 input, calls, failed, wrote, outputFile>>

\* main, lines 54-60 and 71: the files are listed; more than 20 are asked
\* about at once
ListFiles ==
  /\ pc = "main"
  /\ pathKind = "directory"
  /\ idx' = 1
  /\ pc' = IF nFiles > BulkThreshold THEN "bulkPrompt" ELSE "next"
  /\ printed' = "nothing"
  /\ UNCHANGED <<transformVars, resultVars, flagVars, loop, bulkInput, input,
                 calls, failed, wrote, outputFile>>

\* main, lines 77-80: a single file is approved, then processed
SingleFile ==
  /\ pc = "main"
  /\ pathKind = "file"
  /\ idx' = 1
  /\ pc' = "approve"
  /\ printed' = "nothing"
  /\ UNCHANGED <<transformVars, resultVars, flagVars, loop, bulkInput, input,
                 calls, failed, wrote, outputFile>>

\* main, lines 61-70: any answer but y or Y runs the loop of line 65, which
\* processes every file and returns; y or Y goes on to the loop of line 71
BulkPrompt ==
  /\ pc = "bulkPrompt"
  /\ \E answer \in Answers :
       /\ bulkInput' = answer
       /\ loop' = IF ToLowerString(answer) # <<"y">> THEN "all" ELSE "approve"
  /\ printed' = "Do you want to process all of them?"
  /\ pc' = "next"
  /\ UNCHANGED <<transformVars, resultVars, flagVars, idx, input, calls,
                 failed, wrote, outputFile>>

\* main, the heads of the loops of lines 65 and 71, and the return
NextFile ==
  /\ pc = "next"
  /\ pc' = IF idx > nFiles THEN "done"
           ELSE IF loop = "all" THEN "read" ELSE "approve"
  /\ printed' = "nothing"
  /\ UNCHANGED <<transformVars, resultVars, flagVars, loop, idx, bulkInput,
                 input, calls, failed, wrote, outputFile>>

\* approveFile, called at lines 72 and 78
ApproveFile ==
  /\ pc = "approve"
  /\ \E answer \in Answers :
       /\ input' = answer
       /\ IF ToLowerString(answer) = <<"y">>
          THEN pc' = "read" /\ idx' = idx
          ELSE pc' = "next" /\ idx' = idx + 1
  /\ printed' = "Process file?"
  /\ UNCHANGED <<transformVars, resultVars, flagVars, loop, bulkInput, calls,
                 failed, wrote, outputFile>>

\* processFile returns to main's loop, which moves on to the next file;
\* the locals of the call are gone
Return ==
  /\ idx' = idx + 1
  /\ calls' = 0
  /\ input' = << >>
  /\ pc' = "next"

\* GiveUp as it would be were an error of processFile to end the program
GiveUpAndExit(error) ==
  /\ printed' = error
  /\ failed' = TRUE
  /\ calls' = 0
  /\ input' = << >>
  /\ idx' = idx
  /\ pc' = "exit1"

\* processFile gives up on the file at hand: the error is printed and
\* processFile returns
GiveUp(error) ==
  /\ printed' = error
  /\ failed' = TRUE
  /\ Return

\* processFile, lines 157-162: os.ReadFile succeeds or fails
ReadFile ==
  /\ pc = "read"
  /\ \/ /\ inputFile' = FileContent(idx)
        /\ calls' = calls + 1
        /\ pc' = "transform"
        /\ printed' = "nothing"
        /\ UNCHANGED <<idx, input, failed>>
     \/ /\ GiveUp("Error: Could not read input file")
        /\ UNCHANGED inputFile
  /\ output' = << >>
  /\ outputFile' = "none"
  /\ UNCHANGED <<token, matches, resultVars, flagVars, loop, bulkInput, wrote>>

\* processFile's switch, lines 171-181
Transformed(m, in, tok) ==
  CASE m = "tokenize"   -> <<tokenize(in, tok)>>
    [] m = "detokenize" -> <<detokenize(in, tok)>>
    [] m = "redact"     -> <<redact(in)>>
    [] OTHER            -> << >>

\* Transform as it would be were the switch's default without its return
TransformFallingThrough ==
  /\ pc = "transform"
  /\ matches' = Detect(inputFile)
  /\ output' = Transformed(mode, inputFile, token)
  /\ printed' = IF mode \in {"tokenize", "detokenize", "redact"}
                THEN "Processing" ELSE "Error: Unknown mode"
  /\ pc' = "write"
  /\ UNCHANGED <<idx, input, calls, failed>>
  /\ UNCHANGED <<inputFile, token, resultVars, flagVars, loop, bulkInput, wrote,
                 outputFile>>

\* processFile, lines 164-181: the matches are counted and printed, then
\* the mode's transformation runs; an unknown mode is an error
Transform ==
  /\ pc = "transform"
  /\ matches' = Detect(inputFile)
  /\ output' = Transformed(mode, inputFile, token)
  /\ IF mode \in {"tokenize", "detokenize", "redact"}
     THEN /\ printed' = "Processing"
          /\ pc' = "write"
          /\ UNCHANGED <<idx, input, calls, failed>>
     ELSE GiveUp("Error: Unknown mode")
  /\ UNCHANGED <<inputFile, token, resultVars, flagVars, loop, bulkInput, wrote,
                 outputFile>>

\* processFile, lines 184-192: the output is named into the -output
\* directory when that is one, else beside the input
OutputName ==
  IF outputKind = "directory" THEN "in the output directory"
  ELSE "beside the input"

\* processFile, lines 193-198: os.WriteFile succeeds or fails
WriteFile ==
  /\ pc = "write"
  /\ outputFile' = OutputName
  /\ \/ /\ wrote' = TRUE
        /\ printed' = "Processed"
        /\ Return
        /\ UNCHANGED failed
     \/ /\ GiveUp("Error: Could not write output file")
        /\ UNCHANGED wrote
  /\ UNCHANGED <<transformVars, resultVars, flagVars, loop, bulkInput>>

Next ==
  \/ ExitOnBadPath
  \/ ListFiles
  \/ SingleFile
  \/ BulkPrompt
  \/ NextFile
  \/ ApproveFile
  \/ ReadFile
  \/ Transform
  \/ WriteFile

Spec == Init /\ [][Next]_vars
(***************************************************************************)
(* The claims.                                                             *)
(***************************************************************************)
\* what the claims call a word character: a letter, a digit, the underscore
ClaimWordChars == LowerLetters \cup UpperLetters \cup DigitChars \cup {"_"}

\* the maximal runs of word characters of s, each as <<first, last>>
MaximalRuns(s) ==
  {r \in (1..Len(s)) \X (1..Len(s)) :
     /\ r[1] <= r[2]
     /\ \A i \in r[1]..r[2] : s[i] \in ClaimWordChars
     /\ r[1] = 1 \/ s[r[1] - 1] \notin ClaimWordChars
     /\ r[2] = Len(s) \/ s[r[2] + 1] \notin ClaimWordChars}

\* s with each maximal run of word characters replaced by tok and every
\* other character kept where it is
WordsReplaced(s, tok) ==
  Flatten([i \in 1..Len(s) |->
    IF s[i] \notin ClaimWordChars THEN <<s[i]>>
    ELSE IF i = 1 \/ s[i - 1] \notin ClaimWordChars THEN tok
    ELSE << >>])

IsClaimWord(tok) == tok # << >> /\ \A i \in 1..Len(tok) : tok[i] \in ClaimWordChars

NoSpaceAtEnds(tok) ==
  tok = << >> \/ (~IsSpace(tok[1]) /\ ~IsSpace(tok[Len(tok)]))

Example1PhraseMasked ==
  <<"M","y"," ">> \o Redacted \o
  <<" ","i","s"," ","1","2","3","-","4","5","-","6","7","8","9">>

Example2PhraseMasked ==
  <<"P","a","t","i","e","n","t"," ">> \o Redacted \o
  <<" ","a","t","t","a","c","h","e","d">>

Example1Redacted ==
  Redacted \o <<" ","i","s"," ","1","2","3","-","4","5","-","6","7","8","9">>

Example2Redacted == Redacted \o <<" ","a","t","t","a","c","h","e","d">>

\* C1, as claimed: redact masks only the vocabulary phrase and leaves the
\* word in front of it: "My SSN is 123-45-6789" becomes
\* "My [redacted] is 123-45-6789" and "Patient medical record attached"
\* becomes "Patient [redacted] attached".
C1_MasksPhraseOnly ==
  output # << >> =>
    /\ inputFile = Example1 => output = <<Example1PhraseMasked>>
    /\ inputFile = Example2 => output = <<Example2PhraseMasked>>

\* C1, amended: in both examples redact masks the word in front of the
\* phrase together with the phrase (the patterns' optional qualifier takes
\* it into the match): "My SSN is 123-45-6789" becomes
\* "[redacted] is 123-45-6789" and "Patient medical record attached"
\* becomes "[redacted] attached".
C1_MasksQualifierAndPhrase ==
  output # << >> =>
    /\ inputFile = Example1 => output = <<Example1Redacted>>
    /\ inputFile = Example2 => output = <<Example2Redacted>>

C1_Witness ==
  /\ step = "redacted"
  /\ inputFile \in {Example1, Example2}
  /\ output \in {<<Example1Redacted>>, <<Example2Redacted>>}

\* C2: after redact the Detector (the package-level piiRegex and spiiRegex)
\* finds no PII match and no SPII match in the result.
C2_RedactRemovesWhatIsDetected ==
  step = "recounted" => recount = <<0, 0>>

\* C3: redact is idempotent: redacting the result of redact changes
\* nothing.
C3_RedactIdempotent ==
  again # << >> => again = output

C3_Witness ==
  /\ step = "redactedTwice"
  /\ output # <<inputFile>>
  /\ Len(output[1]) > Len(Redacted)
  /\ again = output

\* C4: tokenize replaces every maximal run of word characters (letters,
\* digits, underscore) with the token and keeps every other character in
\* its place, so that the words of the output are the token's; "Hello world"
\* with the token "***" becomes "*** ***".
C4_TokenizeReplacesEveryWord ==
  step \in {"tokenized", "roundTrip"} =>
    /\ output = <<WordsReplaced(inputFile, token)>>
    /\ IsClaimWord(token) =>
         \A r \in MaximalRuns(output[1]) : SubSeq(output[1], r[1], r[2]) = token
    /\ (inputFile = HelloWorld /\ token = Stars) =>
         output = <<Stars \o <<" ">> \o Stars>>

C4_Witness ==
  /\ step = "tokenized"
  /\ inputFile = HelloWorld
  /\ token = Stars
  /\ output = <<Stars \o <<" ">> \o Stars>>

\* C5, as claimed: detokenize changes nothing, for every document and every
\* token.
C5_DetokenizeChangesNothing ==
  step = "detokenized" => output = <<inputFile>>

\* C5, amended: detokenize changes nothing for every document and every
\* token that neither begins nor ends with white space (a match is replaced
\* by its trimmed text, which is then the match itself); with a token that
\* begins or ends with white space it changes exactly the documents in
\* which the token occurs between word boundaries.
C5_DetokenizeKeepsTrimmedTokens ==
  step = "detokenized" =>
    /\ NoSpaceAtEnds(token) => output = <<inputFile>>
    /\ ~NoSpaceAtEnds(token) =>
         (output = <<inputFile>>
            <=> FindFrom(detokenizeRegex(token), inputFile, 1) = <<0, 0>>)

C5_Witness ==
  /\ step = "detokenized"
  /\ token # << >>
  /\ NoSpaceAtEnds(token)
  /\ FindFrom(detokenizeRegex(token), inputFile, 1) # <<0, 0>>
  /\ output = <<inputFile>>

\* C6: detokenize after tokenize gives the document back only when every
\* word of the document was the token already; a document with any other
\* word comes back different.
C6_RoundTripOnlyOfTokens ==
  (step = "roundTrip" /\ again = <<inputFile>>) =>
    \A r \in MaximalRuns(inputFile) : SubSeq(inputFile, r[1], r[2]) = token

C6_Witness ==
  /\ step = "roundTrip"
  /\ again = <<inputFile>>
  /\ MaximalRuns(inputFile) # {}

KnownModes == {"tokenize", "detokenize", "redact"}

ProcessFileErrors ==
  {"Error: Could not read input file", "Error: Unknown mode",
   "Error: Could not write output file"}

\* C7: with a mode other than tokenize, detokenize and redact, processFile
\* prints an error at its switch and produces nothing: no transformation
\* runs and no output file is written.
C7_UnknownModeProducesNothing ==
  /\ [](mode \notin KnownModes =>
          /\ ~wrote
          /\ output = << >>
          /\ pc # "write")
  /\ [][(mode \notin KnownModes /\ pc = "transform") =>
          /\ printed' = "Error: Unknown mode"
          /\ pc' = "next"]_vars

C7_Witness ==
  /\ mode = "shred"
  /\ pc = "next"
  /\ printed = "Error: Unknown mode"
  /\ inputFile # << >>
  /\ output = << >>
  /\ ~wrote

\* C8: the files of a directory are handled one at a time in listing
\* order; an error of processFile ends that file only: main goes on to the
\* next file, every file of the listing is considered before main returns,
\* and processFile is not called again on the file.
C8_ErrorEndsOneFileOnly ==
  /\ [](/\ pc \in {"approve", "read", "transform", "write"} => idx \in 1..nFiles
        /\ pc = "done" => idx = nFiles + 1
        /\ pc = "exit1" => idx = 0
        /\ calls <= 1)
  /\ [][/\ idx' \in {idx, idx + 1}
        /\ (pc \in {"read", "transform", "write"} /\ printed' \in ProcessFileErrors)
             => (idx' = idx + 1 /\ pc' = "next")]_vars

C8_Witness ==
  /\ pathKind = "directory"
  /\ failed
  /\ pc = "write"
  /\ idx > 1

\* C9: processFile runs on a file only after the user answered y to a
\* prompt that covers the file: the file's own prompt, or the prompt about
\* all the files of a directory of more than 20.
C9_ProcessedOnlyWhenApproved ==
  pc \in {"read", "transform", "write"} =>
    \/ ToLowerString(input) = <<"y">>
    \/ ToLowerString(bulkInput) = <<"y">>

\* C10: redact leaves a document unchanged in which the Detector finds no
\* PII match and no SPII match.
C10_CleanDocumentUnchanged ==
  (output # << >> /\ matches = <<0, 0>>) => output = <<inputFile>>

C10_Witness ==
  /\ step = "redacted"
  /\ matches = <<0, 0>>
  /\ \E i \in 1..Len(inputFile) : IsLetter(inputFile[i])
  /\ output = <<inputFile>>
=============================================================================
